---------------------------- MODULE Spec2Model ----------------------------
(***************************************************************************)
(* RadioDuckDialect (src/radio_duck/sqlalchemy.py): the introspection      *)
(* operations, the transaction / isolation-level stubs and                 *)
(* create_connect_args, as a state machine of one synchronous caller.      *)
(*                                                                         *)
(* Python text that the code inspects character by character (the schema   *)
(* argument, an index's creation SQL) is a sequence of one-character       *)
(* strings; text the code only passes along (names, queries) is a string.  *)
(***************************************************************************)
EXTENDS Integers, Sequences, FiniteSets

VARIABLES
    pc,               \* "idle": the caller is about to call; "done": a call has ended
    op,               \* the method that was called
    args,             \* the arguments of the call
    conn,             \* behaviour of the connection / cursor during the call
    cursor,           \* the method's local variable `cursor`
    events,           \* calls made on the connection and its cursor, in order
    executed,         \* statements passed to cursor.execute: <<query, parameters>>
    outcome,          \* what the caller receives: a returned value or a raised error
    isolation_level   \* RadioDuckDialect.isolation_level

vars == <<pc, op, args, conn, cursor, events, executed, outcome, isolation_level>>

-----------------------------------------------------------------------------
(* Bounds of the model *)

MaxSchemaLen == 2     \* longest schema argument
MaxRows == 2          \* most rows in a catalog query's result
MaxRowCount == 2      \* largest cursor.rowcount

-----------------------------------------------------------------------------
(* Python values *)

None == <<"None">>
Cursor == <<"Cursor">>

Return(v) == [kind |-> "return", value |-> v]
Raise(e) == [kind |-> "raise", value |-> e]

RECURSIVE SeqsUpTo(_, _)
SeqsUpTo(S, n) ==
    IF n = 0 THEN {<<>>}
    ELSE LET shorter == SeqsUpTo(S, n - 1)
         IN  shorter \cup {Append(s, x) : s \in {t \in shorter : Len(t) = n - 1}, x \in S}

(* str.strip(): leading and trailing whitespace removed *)
Whitespace == {" ", "\t", "\n", "\r", "\f"}

RECURSIVE lstrip(_)
lstrip(s) ==
    IF s # <<>> /\ Head(s) \in Whitespace THEN lstrip(Tail(s)) ELSE s

RECURSIVE rstrip(_)
rstrip(s) ==
    IF s # <<>> /\ s[Len(s)] \in Whitespace THEN rstrip(SubSeq(s, 1, Len(s) - 1)) ELSE s

strip(s) == rstrip(lstrip(s))

(* str.split(","): the pieces between commas; the empty text gives one empty piece *)
RECURSIVE split(_)
split(s) ==
    LET commas == {i \in 1..Len(s) : s[i] = ","}
    IN  IF commas = {} THEN <<s>>
        ELSE LET i == CHOOSE k \in commas : \A m \in commas : k <= m
             IN  <<SubSeq(s, 1, i - 1)>> \o split(SubSeq(s, i + 1, Len(s)))

(* re.search(r"\((.*?)\)", sql): group 1 of the leftmost match, or None.  *)
(* "." matches any character but a line feed, and ".*?" is lazy.           *)
re_search(sql) ==
    LET Matches(i) ==
            /\ sql[i] = "("
            /\ \E j \in (i + 1)..Len(sql) :
                   /\ sql[j] = ")"
                   /\ \A k \in (i + 1)..(j - 1) : sql[k] # "\n"
        starts == {i \in 1..Len(sql) : Matches(i)}
    IN  IF starts = {} THEN None
        ELSE LET i == CHOOSE k \in starts : \A m \in starts : k <= m
                 ends == {j \in (i + 1)..Len(sql) : sql[j] = ")"}
                 j == CHOOSE k \in ends : \A m \in ends : k <= m
             IN  SubSeq(sql, i + 1, j - 1)


-----------------------------------------------------------------------------
(* Inputs of the calls *)

SchemaChars == {" ", "\t", "s"}
SchemaArgs == {None} \cup SeqsUpTo(SchemaChars, MaxSchemaLen)
ObjectNames == {"t1"}
Levels == {"SNAPSHOT", "SERIALIZABLE", "READ COMMITTED"}

(* The rows the catalog queries yield, by query *)
NameRows == {<<"a">>, <<"b">>}
ViewSqlRows == {<<"SELECT 1">>, <<"SELECT 2">>}
ConstraintRows == {<<"c1", <<"x">>>>, <<"c2", <<"x", "y">>>>}
ColumnRows == {<<"x", "INTEGER", FALSE, "NULL">>, <<"y", "VARCHAR", TRUE, "''">>}
CheckRows == {<<"ck1", "x > 0">>, <<"ck2", "y <> ''">>}
IndexSql ==
    { <<"(", "a", ",", " ", "b", ")">>,              \* (a, b)
      <<"t", "(", " ", "a", " ", ")">>,              \* t( a )
      <<"t", " ", "a">>,                             \* no parenthesized group
      <<"(", "a", ",", "\n", "b", ")">>,             \* group broken over two lines
      None }                                         \* SQL NULL
IndexRows == {<<"i1", sql, TRUE>> : sql \in IndexSql} \cup {<<"i2", <<"(", "a", ")">>, FALSE>>}

Connections(fails, counts, rows) ==
    [fail : fails, closeFails : BOOLEAN, rowcount : counts, rows : SeqsUpTo(rows, MaxRows)]

RowcountConns == Connections({"none", "cursor", "execute"}, -1..MaxRowCount, {})
FetchConns(rows) == Connections({"none", "cursor", "execute", "fetch"}, {-1}, rows)
NoConn == [fail |-> "none", closeFails |-> FALSE, rowcount |-> -1, rows |-> <<>>]

(* cursor.fetchall() and cursor.fetchone() of the DB-API cursor *)
fetchall(c) == c.rows
fetchone(c) == IF c.rows = <<>> THEN None ELSE Head(c.rows)

-----------------------------------------------------------------------------
(* The shape every introspection method has:                               *)
(*     cursor = None                                                       *)
(*     try:     cursor = connection.cursor(); cursor.execute(...); read    *)
(*     finally: if cursor is not None: cursor.close()                      *)

(* TryBlock with a retry: a failed execute() is attempted a second time. *)
TryBlockRetrying(c, query, parameters, read) ==
    IF c.fail = "cursor"
    THEN [cursor |-> None, events |-> <<"cursor">>, executed |-> <<>>,
          outcome |-> Raise("CursorError")]
    ELSE IF c.fail = "execute"
    THEN [cursor |-> Cursor, events |-> <<"cursor", "execute", "execute">>,
          executed |-> << <<query, parameters>>, <<query, parameters>> >>,
          outcome |-> Raise("ExecuteError")]
    ELSE IF c.fail = "fetch" /\ read # "rowcount"
    THEN [cursor |-> Cursor, events |-> <<"cursor", "execute", read>>,
          executed |-> << <<query, parameters>> >>,
          outcome |-> Raise("FetchError")]
    ELSE [cursor |-> Cursor, events |-> <<"cursor", "execute", read>>,
          executed |-> << <<query, parameters>> >>,
          outcome |-> Return(IF read = "rowcount" THEN c.rowcount
                             ELSE IF read = "fetchall" THEN c.rows
                             ELSE IF c.rows = <<>> THEN None ELSE Head(c.rows))]

(* The try block up to the read: an error raised by cursor(), execute()    *)
(* or the read leaves the block at once; otherwise the data read is held.  *)
TryBlock(c, query, parameters, read) ==
    IF c.fail = "cursor"
    THEN [cursor |-> None, events |-> <<"cursor">>, executed |-> <<>>,
          outcome |-> Raise("CursorError")]
    ELSE IF c.fail = "execute"
    THEN [cursor |-> Cursor, events |-> <<"cursor", "execute">>,
          executed |-> << <<query, parameters>> >>,
          outcome |-> Raise("ExecuteError")]
    ELSE IF c.fail = "fetch" /\ read # "rowcount"
    THEN [cursor |-> Cursor, events |-> <<"cursor", "execute", read>>,
          executed |-> << <<query, parameters>> >>,
          outcome |-> Raise("FetchError")]
    ELSE [cursor |-> Cursor, events |-> <<"cursor", "execute", read>>,
          executed |-> << <<query, parameters>> >>,
          outcome |-> Return(CASE read = "rowcount" -> c.rowcount
                               [] read = "fetchall" -> fetchall(c)
                               [] read = "fetchone" -> fetchone(c))]

(* The rest of the try block: what the method makes of the data read. *)
Rest(t, result) ==
    IF t.outcome.kind = "raise" THEN t ELSE [t EXCEPT !.outcome = result]

(* Finally with close() at the end of the try block instead: an error in *)
(* the block skips it.                                                    *)
FinallyOnlyOnSuccess(t, c) ==
    IF t.cursor # None /\ t.outcome.kind = "return"
    THEN [t EXCEPT !.events = Append(@, "close"),
                   !.outcome = IF c.closeFails THEN Raise("CloseError") ELSE @]
    ELSE t

(* The finally block.  An error raised by close() replaces whatever the    *)
(* try block was returning or raising.                                     *)
Finally(t, c) ==
    IF t.cursor # None
    THEN [t EXCEPT !.events = Append(@, "close"),
                   !.outcome = IF c.closeFails THEN Raise("CloseError") ELSE @]
    ELSE t

(* DefaultSchema without the strip(): whitespace-only text is kept. *)
DefaultSchemaUnstripped(schema) ==
    IF schema = None \/ schema = <<>> THEN <<"m", "a", "i", "n">> ELSE schema

(* if schema is None or "" == schema.strip(): schema = "main" *)
Main == <<"m", "a", "i", "n">>
DefaultSchema(schema) ==
    IF schema = None \/ strip(schema) = <<>> THEN Main ELSE schema

(* The call ends: the caller holds its outcome. *)
Ends(name, a, c, t) ==
    /\ pc' = "done"
    /\ op' = name
    /\ args' = a
    /\ conn' = c
    /\ cursor' = t.cursor
    /\ events' = t.events
    /\ executed' = t.executed
    /\ outcome' = t.outcome

-----------------------------------------------------------------------------
(* What each method makes of the data it reads *)

RECURSIVE flatten(_)
(* [col_val for row in rows for col_val in row] *)
flatten(rows) ==
    IF rows = <<>> THEN <<>> ELSE Head(rows) \o flatten(Tail(rows))

(* has_result as "at least one row" *)
has_result_nonzero(rowcount) == Return(rowcount >= 1)

(* return cursor.rowcount == 1 *)
has_result(rowcount) == Return(rowcount = 1)

(* return "" if row is None else row[0] *)
view_definition(row) == Return(IF row = None THEN "" ELSE row[1])

(* [{"name": row[0], "column_names": row[1]} for row in rows] *)
constraint_records(rows) ==
    [i \in 1..Len(rows) |-> [name |-> rows[i][1], column_names |-> rows[i][2]]]

(* pk_records yielding None, not [], when there is no row *)
pk_records_or_none(row) ==
    Return(IF row # None THEN <<[name |-> row[1], column_names |-> row[2]]>> ELSE None)

(* [{"name": row[0], "column_names": row[1]}] if row is not None else [] *)
pk_records(row) ==
    Return(IF row # None THEN <<[name |-> row[1], column_names |-> row[2]]>> ELSE <<>>)

column_records(rows) ==
    [i \in 1..Len(rows) |->
        [name |-> rows[i][1], type |-> rows[i][2],
         nullable |-> rows[i][3], default |-> rows[i][4]]]

check_records(rows) ==
    [i \in 1..Len(rows) |-> [name |-> rows[i][1], sqltext |-> rows[i][2]]]

(* column names parsed from an index's creation SQL *)
index_columns(sql) ==
    LET match == re_search(sql)
    IN  IF match # None
        THEN LET columns == split(match)
             IN  [i \in 1..Len(columns) |-> strip(columns[i])]
        ELSE <<>>

(* get_indexes' loop over the rows; re.search raises TypeError when sql is None *)
index_records(rows) ==
    IF \E i \in 1..Len(rows) : rows[i][2] = None
    THEN Raise("TypeError")
    ELSE Return([i \in 1..Len(rows) |->
                    [name |-> rows[i][1], unique |-> rows[i][3],
                     column_names |-> index_columns(rows[i][2])]])

-----------------------------------------------------------------------------
(* The state before the first call *)
Init ==
    /\ pc = "idle"
    /\ op = "none"
    /\ args = <<>>
    /\ conn = NoConn
    /\ cursor = None
    /\ events = <<>>
    /\ executed = <<>>
    /\ outcome = Return(None)
    /\ isolation_level = "SNAPSHOT"

(* ---- has methods ---- *)

has_index ==
    /\ pc = "idle"
    /\ \E schema0 \in SchemaArgs, table_name \in ObjectNames, index_name \in ObjectNames, c \in RowcountConns :
          LET schema == DefaultSchema(schema0)
              t == TryBlock(c, "has_index_query", <<schema, table_name, index_name>>, "rowcount")
          IN  Ends("has_index", [schema |-> schema0, table_name |-> table_name, index_name |-> index_name], c,
                   Finally(Rest(t, has_result(t.outcome.value)), c))
    /\ UNCHANGED isolation_level

has_table ==
    /\ pc = "idle"
    /\ \E schema0 \in SchemaArgs, table_name \in ObjectNames, c \in RowcountConns :
          LET schema == DefaultSchema(schema0)
              t == TryBlock(c, "has_table_query", <<schema, table_name>>, "rowcount")
          IN  Ends("has_table", [schema |-> schema0, table_name |-> table_name], c,
                   Finally(Rest(t, has_result(t.outcome.value)), c))
    /\ UNCHANGED isolation_level

has_sequence ==
    /\ pc = "idle"
    /\ \E schema0 \in SchemaArgs, sequence_name \in ObjectNames, c \in RowcountConns :
          LET schema == DefaultSchema(schema0)
              t == TryBlock(c, "has_sequence_query", <<schema, sequence_name>>, "rowcount")
          IN  Ends("has_sequence", [schema |-> schema0, sequence_name |-> sequence_name], c,
                   Finally(Rest(t, has_result(t.outcome.value)), c))
    /\ UNCHANGED isolation_level

(* ---- get methods ---- *)

get_table_names ==
    /\ pc = "idle"
    /\ \E schema0 \in SchemaArgs, c \in FetchConns(NameRows) :
          LET schema == DefaultSchema(schema0)
              t == TryBlock(c, "get_tables", <<schema>>, "fetchall")
          IN  Ends("get_table_names", [schema |-> schema0], c,
                   Finally(Rest(t, Return(flatten(t.outcome.value))), c))
    /\ UNCHANGED isolation_level

get_view_names ==
    /\ pc = "idle"
    /\ \E schema0 \in SchemaArgs, c \in FetchConns(NameRows) :
          LET schema == DefaultSchema(schema0)
              t == TryBlock(c, "get_views", <<schema>>, "fetchall")
          IN  Ends("get_view_names", [schema |-> schema0], c,
                   Finally(Rest(t, Return(flatten(t.outcome.value))), c))
    /\ UNCHANGED isolation_level

get_view_definition ==
    /\ pc = "idle"
    /\ \E schema0 \in SchemaArgs, view_name \in ObjectNames, c \in FetchConns(ViewSqlRows) :
          LET schema == DefaultSchema(schema0)
              t == TryBlock(c, "get_view_sql", <<schema, view_name>>, "fetchone")
          IN  Ends("get_view_definition", [schema |-> schema0, view_name |-> view_name], c,
                   Finally(Rest(t, view_definition(t.outcome.value)), c))
    /\ UNCHANGED isolation_level

get_unique_constraints ==
    /\ pc = "idle"
    /\ \E schema0 \in SchemaArgs, table_name \in ObjectNames, c \in FetchConns(ConstraintRows) :
          LET schema == DefaultSchema(schema0)
              t == TryBlock(c, "get_constraints", <<schema, table_name, "UNIQUE">>, "fetchall")
          IN  Ends("get_unique_constraints", [schema |-> schema0, table_name |-> table_name], c,
                   Finally(Rest(t, Return(constraint_records(t.outcome.value))), c))
    /\ UNCHANGED isolation_level

(* the schema argument is neither defaulted nor passed to the query *)
get_temp_view_names ==
    /\ pc = "idle"
    /\ \E schema0 \in SchemaArgs, c \in FetchConns(NameRows) :
          LET t == TryBlock(c, "get_temp_views", <<>>, "fetchall")
          IN  Ends("get_temp_view_names", [schema |-> schema0], c,
                   Finally(Rest(t, Return(flatten(t.outcome.value))), c))
    /\ UNCHANGED isolation_level

get_temp_table_names ==
    /\ pc = "idle"
    /\ \E schema0 \in SchemaArgs, c \in FetchConns(NameRows) :
          LET schema == DefaultSchema(schema0)
              t == TryBlock(c, "get_temp_tables", <<schema>>, "fetchall")
          IN  Ends("get_temp_table_names", [schema |-> schema0], c,
                   Finally(Rest(t, Return(flatten(t.outcome.value))), c))
    /\ UNCHANGED isolation_level

get_sequence_names ==
    /\ pc = "idle"
    /\ \E schema0 \in SchemaArgs, c \in FetchConns(NameRows) :
          LET schema == DefaultSchema(schema0)
              t == TryBlock(c, "get_sequences", <<schema>>, "fetchall")
          IN  Ends("get_sequence_names", [schema |-> schema0], c,
                   Finally(Rest(t, Return(flatten(t.outcome.value))), c))
    /\ UNCHANGED isolation_level

get_pk_constraint ==
    /\ pc = "idle"
    /\ \E schema0 \in SchemaArgs, table_name \in ObjectNames, c \in FetchConns(ConstraintRows) :
          LET schema == DefaultSchema(schema0)
              t == TryBlock(c, "get_constraints", <<schema, table_name, "PRIMARY KEY">>, "fetchone")
          IN  Ends("get_pk_constraint", [schema |-> schema0, table_name |-> table_name], c,
                   Finally(Rest(t, pk_records(t.outcome.value)), c))
    /\ UNCHANGED isolation_level

get_indexes ==
    /\ pc = "idle"
    /\ \E schema0 \in SchemaArgs, table_name \in ObjectNames, c \in FetchConns(IndexRows) :
          LET schema == DefaultSchema(schema0)
              t == TryBlock(c, "get_indexes", <<schema, table_name>>, "fetchall")
          IN  Ends("get_indexes", [schema |-> schema0, table_name |-> table_name], c,
                   Finally(Rest(t, index_records(t.outcome.value)), c))
    /\ UNCHANGED isolation_level

get_foreign_keys ==
    /\ pc = "idle"
    /\ \E schema0 \in SchemaArgs, table_name \in ObjectNames, c \in FetchConns(ConstraintRows) :
          LET schema == DefaultSchema(schema0)
              t == TryBlock(c, "get_constraints", <<schema, table_name, "FOREIGN KEY">>, "fetchall")
          IN  Ends("get_foreign_keys", [schema |-> schema0, table_name |-> table_name], c,
                   Finally(Rest(t, Return(constraint_records(t.outcome.value))), c))
    /\ UNCHANGED isolation_level

get_columns ==
    /\ pc = "idle"
    /\ \E schema0 \in SchemaArgs, table_name \in ObjectNames, c \in FetchConns(ColumnRows) :
          LET schema == DefaultSchema(schema0)
              t == TryBlock(c, "get_columns", <<schema, table_name>>, "fetchall")
          IN  Ends("get_columns", [schema |-> schema0, table_name |-> table_name], c,
                   Finally(Rest(t, Return(column_records(t.outcome.value))), c))
    /\ UNCHANGED isolation_level

get_check_constraints ==
    /\ pc = "idle"
    /\ \E schema0 \in SchemaArgs, table_name \in ObjectNames, c \in FetchConns(CheckRows) :
          LET schema == DefaultSchema(schema0)
              t == TryBlock(c, "get_check_constraint", <<schema, table_name>>, "fetchall")
          IN  Ends("get_check_constraints", [schema |-> schema0, table_name |-> table_name], c,
                   Finally(Rest(t, Return(check_records(t.outcome.value))), c))
    /\ UNCHANGED isolation_level

-----------------------------------------------------------------------------
(* ---- transaction and isolation-level methods ---- *)

(* A method that touches no connection and yields `result`. *)
Yields(result) ==
    [cursor |-> None, events |-> <<>>, executed |-> <<>>, outcome |-> Return(result)]

(* pass *)
do_rollback ==
    /\ pc = "idle"
    /\ Ends("do_rollback", <<>>, NoConn, Yields(None))
    /\ UNCHANGED isolation_level

do_commit ==
    /\ pc = "idle"
    /\ Ends("do_commit", <<>>, NoConn, Yields(None))
    /\ UNCHANGED isolation_level

do_begin ==
    /\ pc = "idle"
    /\ Ends("do_begin", <<>>, NoConn, Yields(None))
    /\ UNCHANGED isolation_level

(* set_isolation_level storing the requested level *)
set_isolation_level_stores ==
    /\ pc = "idle"
    /\ \E level \in Levels :
          /\ pc' = "done"
          /\ op' = "set_isolation_level"
          /\ args' = [level |-> level]
          /\ isolation_level' = level
    /\ UNCHANGED <<conn, cursor, events, executed, outcome>>

reset_isolation_level ==
    /\ pc = "idle"
    /\ Ends("reset_isolation_level", <<>>, NoConn, Yields(None))
    /\ UNCHANGED isolation_level

set_isolation_level ==
    /\ pc = "idle"
    /\ \E level \in Levels :
          Ends("set_isolation_level", [level |-> level], NoConn, Yields(None))
    /\ UNCHANGED isolation_level

(* return self.isolation_level *)
get_isolation_level ==
    /\ pc = "idle"
    /\ Ends("get_isolation_level", <<>>, NoConn, Yields(isolation_level))
    /\ UNCHANGED isolation_level

get_default_isolation_level ==
    /\ pc = "idle"
    /\ Ends("get_default_isolation_level", <<>>, NoConn, Yields(isolation_level))
    /\ UNCHANGED isolation_level

-----------------------------------------------------------------------------
(* ---- connect methods ---- *)

ConnectKeys == {"host", "api"}
ConnectValues == {"v1", "v2"}
Mappings == UNION {[keys -> ConnectValues] : keys \in SUBSET ConnectKeys}
Urls == [translated : Mappings, query : Mappings]

(* url.translate_connect_args(): the URL's components as a mapping *)
translate_connect_args(url) == url.translated

(* update that keeps an entry `opts` already has *)
update_missing_only(opts, other) ==
    [k \in DOMAIN opts \cup DOMAIN other |->
        IF k \in DOMAIN opts THEN opts[k] ELSE other[k]]

(* dict.update: the entries of `other` are set in `opts` *)
update(opts, other) ==
    [k \in DOMAIN opts \cup DOMAIN other |->
        IF k \in DOMAIN other THEN other[k] ELSE opts[k]]

create_connect_args ==
    /\ pc = "idle"
    /\ \E url \in Urls :
          LET opts == update(translate_connect_args(url), url.query)
          IN  Ends("create_connect_args", [url |-> url], NoConn, Yields(<< <<>>, opts >>))
    /\ UNCHANGED isolation_level

-----------------------------------------------------------------------------
(* The caller drops the outcome of the call that ended and is ready for    *)
(* the next one; nothing but the dialect's own attributes outlives a call. *)
NextCall ==
    /\ pc = "done"
    /\ pc' = "idle"
    /\ op' = "none"
    /\ args' = <<>>
    /\ conn' = NoConn
    /\ cursor' = None
    /\ events' = <<>>
    /\ executed' = <<>>
    /\ outcome' = Return(None)
    /\ UNCHANGED isolation_level

Next ==
    \/ has_index \/ has_table \/ has_sequence
    \/ get_table_names \/ get_view_names \/ get_view_definition
    \/ get_unique_constraints \/ get_temp_view_names \/ get_temp_table_names
    \/ get_sequence_names \/ get_pk_constraint \/ get_indexes
    \/ get_foreign_keys \/ get_columns \/ get_check_constraints
    \/ do_rollback \/ do_commit \/ do_begin
    \/ reset_isolation_level \/ set_isolation_level
    \/ get_isolation_level \/ get_default_isolation_level
    \/ create_connect_args
    \/ NextCall

Spec == Init /\ [][Next]_vars

-----------------------------------------------------------------------------
(* Vocabulary of the properties *)

HasOps == {"has_index", "has_table", "has_sequence"}
TempOps == {"get_temp_view_names", "get_temp_table_names"}
CursorOps ==
    HasOps \cup TempOps \cup
    {"get_table_names", "get_view_names", "get_view_definition",
     "get_unique_constraints", "get_sequence_names", "get_pk_constraint",
     "get_indexes", "get_foreign_keys", "get_columns", "get_check_constraints"}
TransactionOps ==
    {"do_begin", "do_commit", "do_rollback", "reset_isolation_level", "set_isolation_level"}
LevelOps == {"get_isolation_level", "get_default_isolation_level"}
ReadEvents == {"rowcount", "fetchall", "fetchone"}

Ended(ops) == pc = "done" /\ op \in ops
Returned == outcome.kind = "return"
Raised(e) == outcome.kind = "raise" /\ outcome.value = e
Count(e) == Cardinality({i \in 1..Len(events) : events[i] = e})

(* an absent, empty or whitespace-only schema argument *)
Blank(schema) ==
    schema = None \/ \A i \in 1..Len(schema) : schema[i] \in Whitespace

(* the parameters bound to the statement that was executed *)
Bound == executed[1][2]

-----------------------------------------------------------------------------
(* C1: when a cursor-acquiring operation ends, by return or by any error,  *)
(* and connection.cursor() had returned a cursor, close() has been called  *)
(* on it (once, as the last call made on it).                              *)
C1_CursorClosedOnEveryPath ==
    (Ended(CursorOps) /\ cursor # None)
        => (Count("close") = 1 /\ events[Len(events)] = "close")

(* get_indexes raised while parsing a row and its cursor was closed *)
C1_Witness ==
    /\ Ended({"get_indexes"})
    /\ Raised("TypeError")
    /\ events = <<"cursor", "execute", "fetchall", "close">>

(* C2, as stated: for a blank or absent schema argument every              *)
(* schema-taking operation executes its query with the schema parameter    *)
(* bound to "main".                                                        *)
C2_EveryOperationBindsMain ==
    (Ended(CursorOps) /\ Blank(args.schema) /\ executed # <<>>)
        => (Len(Bound) >= 1 /\ Bound[1] = Main)

(* C2, amended: the same for every schema-taking operation but             *)
(* get_temp_view_names, which binds no parameter at all.                   *)
C2_BlankSchemaBindsMain ==
    (Ended(CursorOps) /\ Blank(args.schema) /\ executed # <<>>)
        => IF op = "get_temp_view_names"
           THEN Bound = <<>>
           ELSE Len(Bound) >= 1 /\ Bound[1] = Main

(* get_columns called with a whitespace-only schema queried "main" *)
C2_Witness ==
    /\ Ended({"get_columns"})
    /\ args.schema = <<" ", "\t">>
    /\ executed = << <<"get_columns", <<Main, "t1">> >> >>

(* C3, as stated: get_temp_table_names and get_temp_view_names execute     *)
(* their query with an empty bound-parameter list, whatever the schema     *)
(* argument.                                                               *)
C3_TempQueriesBindNothing ==
    (Ended(TempOps) /\ executed # <<>>) => Bound = <<>>

(* C4, as stated: when execute or the result read raised E and close()     *)
(* then raises C, close() was called and the caller receives E.            *)
C4_CloseErrorDoesNotMask ==
    (Ended(CursorOps) /\ conn.fail \in {"execute", "fetch"} /\ conn.closeFails)
        => /\ Count("close") = 1
           /\ Raised(IF conn.fail = "execute" THEN "ExecuteError" ELSE "FetchError")

(* C5: has_table, has_index and has_sequence return TRUE exactly when the  *)
(* row count of the executed query is 1, FALSE for every other count.      *)
C5_HasIffRowcountIsOne ==
    (Ended(HasOps) /\ Returned)
        => /\ outcome.value = (conn.rowcount = 1)
           /\ Len(executed) = 1

(* has_table answered FALSE for a row count of 2 *)
C5_Witness ==
    /\ Ended({"has_table"})
    /\ Returned
    /\ conn.rowcount = 2
    /\ outcome.value = FALSE

(* C6: with no row, get_pk_constraint returns the empty sequence and       *)
(* get_view_definition ""; otherwise one record built from the first row,  *)
(* resp. the first row's SQL text.  A missing row raises nothing.          *)
C6_AbsentRowIsEmptyResult ==
    /\ (Ended({"get_pk_constraint", "get_view_definition"})
            /\ conn.fail = "none" /\ ~conn.closeFails) => Returned
    /\ (Ended({"get_pk_constraint"}) /\ Returned)
        => outcome.value =
             IF conn.rows = <<>> THEN <<>>
             ELSE <<[name |-> conn.rows[1][1], column_names |-> conn.rows[1][2]]>>
    /\ (Ended({"get_view_definition"}) /\ Returned)
        => outcome.value = IF conn.rows = <<>> THEN "" ELSE conn.rows[1][1]

(* get_pk_constraint returned the empty sequence for a query without rows *)
C6_Witness ==
    /\ Ended({"get_pk_constraint"})
    /\ Returned
    /\ conn.rows = <<>>
    /\ outcome.value = <<>>

(* C7, as stated: column_names is the text between the first "(" and the   *)
(* first ")" after it, split on "," and trimmed; [] without such a group.  *)
C7_ColumnsAsStated(sql) ==
    LET opens == {i \in 1..Len(sql) : sql[i] = "("}
        i == CHOOSE k \in opens : \A m \in opens : k <= m
        closes == {j \in (i + 1)..Len(sql) : sql[j] = ")"}
        j == CHOOSE k \in closes : \A m \in closes : k <= m
        pieces == split(SubSeq(sql, i + 1, j - 1))
    IN  IF opens = {} THEN <<>>
        ELSE IF closes = {} THEN <<>>
        ELSE [k \in 1..Len(pieces) |-> strip(pieces[k])]

(* C7, as stated: get_indexes returns one record per row, in row order,    *)
(* with the keys name, unique and column_names, column_names as above.     *)
C7_IndexRecords ==
    (Ended({"get_indexes"}) /\ Returned)
        => /\ Len(outcome.value) = Len(conn.rows)
           /\ \A i \in 1..Len(conn.rows) :
                /\ DOMAIN outcome.value[i] = {"name", "unique", "column_names"}
                /\ outcome.value[i].name = conn.rows[i][1]
                /\ outcome.value[i].unique = conn.rows[i][3]
                /\ outcome.value[i].column_names = C7_ColumnsAsStated(conn.rows[i][2])

(* C8: the isolation level is "SNAPSHOT" in every state, do_begin,         *)
(* do_commit, do_rollback, reset_isolation_level and set_isolation_level   *)
(* return without raising, and both getters report "SNAPSHOT".             *)
C8_IsolationLevelFixed ==
    /\ isolation_level = "SNAPSHOT"
    /\ Ended(TransactionOps) => (Returned /\ outcome.value = None)
    /\ Ended(LevelOps) => (Returned /\ outcome.value = "SNAPSHOT")

(* set_isolation_level was asked for another level and nothing changed *)
C8_Witness ==
    /\ Ended({"set_isolation_level"})
    /\ args.level = "SERIALIZABLE"
    /\ Returned
    /\ isolation_level = "SNAPSHOT"

(* C9: create_connect_args returns no positional arguments and the         *)
(* translated URL components overridden, key by key, by the query string.  *)
C9_QueryOverridesComponents ==
    Ended({"create_connect_args"})
        => /\ Returned
           /\ outcome.value[1] = <<>>
           /\ LET url == args.url
                  kwargs == outcome.value[2]
              IN  /\ DOMAIN kwargs = DOMAIN url.translated \cup DOMAIN url.query
                  /\ \A k \in DOMAIN url.query : kwargs[k] = url.query[k]
                  /\ \A k \in DOMAIN url.translated \ DOMAIN url.query :
                         kwargs[k] = url.translated[k]

(* a key given by both the components and the query string took the        *)
(* query string's value                                                    *)
C9_Witness ==
    /\ Ended({"create_connect_args"})
    /\ args.url.translated = [host |-> "v1"]
    /\ args.url.query = [host |-> "v2", api |-> "v1"]
    /\ outcome.value[2] = [host |-> "v2", api |-> "v1"]

(* C10: a call makes cursor() once, then execute once, then one read of    *)
(* the result, then close once, and then returns; an error cuts the        *)
(* sequence short but close still follows; when cursor() fails the error   *)
(* reaches the caller and neither execute nor close is called.             *)
C10_OneCursorOneQuery ==
    Ended(CursorOps)
        => /\ events[1] = "cursor" /\ Count("cursor") = 1
           /\ Count("execute") = Len(executed) /\ Len(executed) <= 1
           /\ cursor = None
                => (events = <<"cursor">> /\ Raised("CursorError"))
           /\ cursor # None
                => \/ events = <<"cursor", "execute", "close">>
                   \/ /\ Len(events) = 4
                      /\ SubSeq(events, 1, 2) = <<"cursor", "execute">>
                      /\ events[3] \in ReadEvents
                      /\ events[4] = "close"
           /\ Returned => Len(events) = 4

(* get_view_definition ran cursor, execute, fetchone, close and returned *)
C10_Witness ==
    /\ Ended({"get_view_definition"})
    /\ Returned
    /\ events = <<"cursor", "execute", "fetchone", "close">>
    /\ Len(executed) = 1

=============================================================================
